---------------------------- MODULE Spec2Model ----------------------------
(***************************************************************************)
(* A model of the lak-scraper repository: the business-day calendar of    *)
(* every scraper, the fetch operation of every scraper (new package under  *)
(* src/ and the legacy top-level modules), the SQLite store and the two    *)
(* command-line runs that fetch, save and compare, the normalizers and row *)
(* parsers of the scrapers, the comparison routines and the rate limiters  *)
(* of scrapers fetched side by side.                                       *)
(*                                                                         *)
(* A date is the proleptic Gregorian ordinal of Python's datetime          *)
(* (date.toordinal()); a formatted date is the tuple of its numeric        *)
(* fields, <<m, d>> for '%m-%d' and <<y, m, d>> for '%Y-%m-%d'.            *)
(***************************************************************************)
EXTENDS Integers, Sequences, FiniteSets, TLC

VARIABLES
    cal,                \* the last calendar call: operation, scraper, argument, result
    call,               \* the last fetch call: scraper, arguments, requests issued, result
    now,                \* time.time(), in seconds
    last_request_time,  \* per scraper instance: the rate limiter's timestamp
    lastIssued,         \* per scraper instance: when its latest request went out
    rows,               \* table exchange_rates
    nextId,             \* AUTOINCREMENT counter of exchange_rates.id
    saves,              \* history: the save_rate calls made, in order
    run,                \* the last command-line run: what it fetched, returned, printed
    norm,               \* the last normalization of a price text, and the multipliers applied so far
    parse,              \* the last parse of a payload: its rows, the quotes it gave
    cmp,                \* the last comparison made: its input, the table it gave
    sleeping            \* per scraper instance: when its time.sleep ends, if it sleeps

vars == <<cal, call, now, last_request_time, lastIssued, rows, nextId, saves, run,
          norm, parse, cmp, sleeping>>

\* Python's None where a date is expected, and a call that raised instead of returning
NoDate == 0
Raised == -1
\* no request has gone out yet
Never == NoDate
None == "None"

(***************************************************************************)
(* Bounds of the model.                                                    *)
(***************************************************************************)
Span == 6          \* days after each anchor date that are inputs
MaxWalks == 2      \* repeated applications of the previous-business-day operation

(***************************************************************************)
(* Calendar arithmetic of datetime: ordinal <-> (year, month, day).        *)
(***************************************************************************)
IsLeap(y) == (y % 4 = 0) /\ ((y % 100 # 0) \/ (y % 400 = 0))

DaysInMonth(y, m) ==
    IF m = 2 THEN (IF IsLeap(y) THEN 29 ELSE 28)
    ELSE IF m \in {4, 6, 9, 11} THEN 30 ELSE 31

DaysBeforeYear(y) ==
    (y - 1) * 365 + ((y - 1) \div 4) - ((y - 1) \div 100) + ((y - 1) \div 400)

DaysBeforeMonth(y, m) ==
    <<0, 31, 59, 90, 120, 151, 181, 212, 243, 273, 304, 334>>[m]
        + (IF m > 2 /\ IsLeap(y) THEN 1 ELSE 0)

\* datetime(y, m, d).toordinal()
Ord(y, m, d) == DaysBeforeYear(y) + DaysBeforeMonth(y, m) + d

Years == 2023..2027

YearOf(n) == CHOOSE y \in Years : DaysBeforeYear(y) < n /\ n <= DaysBeforeYear(y + 1)

MonthOf(n) ==
    LET y == YearOf(n)
        k == n - DaysBeforeYear(y)
    IN  CHOOSE m \in 1..12 :
            DaysBeforeMonth(y, m) < k /\ k <= DaysBeforeMonth(y, m) + DaysInMonth(y, m)

DayOf(n) == n - DaysBeforeYear(YearOf(n)) - DaysBeforeMonth(YearOf(n), MonthOf(n))

\* date.weekday(): 0 is Monday, 5 Saturday, 6 Sunday
weekday(n) == (n + 6) % 7

(***************************************************************************)
(* Input dates: a few days from each anchor.                               *)
(***************************************************************************)
Anchors ==
    { Ord(2024, 2, 29),     \* Thu; 2024-03-01 is the date of test_bol_scraper.py
      Ord(2024, 12, 28),    \* Sat; runs over 2025-01-01 (Wed)
      Ord(2025, 4, 11),     \* Fri; Sat, Sun, then the three-day April holiday
      Ord(2025, 11, 28),    \* Fri; runs over 2025-12-02 (Tue)
      Ord(2025, 12, 30) }   \* Tue; runs over 2026-01-01 (Thu)

Dates == UNION { a..(a + Span) : a \in Anchors }

\* every date a walk back from an input date can touch
Reach == UNION { (a - 7 * (MaxWalks + 2))..(a + Span) : a \in Anchors }

YmdTable == [n \in Reach |-> <<YearOf(n), MonthOf(n), DayOf(n)>>]

\* date.strftime('%m-%d') and date.strftime('%Y-%m-%d')
strftime_md(n) == <<YmdTable[n][2], YmdTable[n][3]>>
strftime_ymd(n) == YmdTable[n]

\* a list that has the Friday before the April holiday of 2025 as well
HOLIDAYS_with_april_11 ==
    { <<1, 1>>, <<1, 20>>, <<3, 8>>, <<4, 11>>, <<4, 14>>, <<4, 15>>, <<4, 16>>, <<5, 1>>,
      <<12, 2>> }

\* the MM-DD holiday list of config.py, repeated in the stand-alone scrapers
HOLIDAYS ==
    { <<1, 1>>, <<1, 20>>, <<3, 8>>, <<4, 14>>, <<4, 15>>, <<4, 16>>, <<5, 1>>, <<12, 2>> }

(***************************************************************************)
(* The scrapers.  Base is BaseScraper itself; BCEL, BOL, LDB, APB, LVB are *)
(* the classes of the scrapers package; BCEL0 is the top-level             *)
(* bcel_scraper.BCELScraper and LAK the top-level lak_scraper.LAKScraper.  *)
(***************************************************************************)
Scrapers == {"Base", "BCEL", "BOL", "LDB", "APB", "LVB", "BCEL0", "LAK"}

\* the classes that define _is_holiday (LAKScraper has none)
HolidayScrapers == Scrapers \ {"LAK"}

\* weekend, or month-day in the holiday list
is_holiday_md(n) ==
    IF weekday(n) >= 5 THEN TRUE ELSE strftime_md(n) \in HOLIDAYS

\* BOLScraper._is_holiday looks the full date up in the MM-DD list
is_holiday_BOL(n) == strftime_ymd(n) \in HOLIDAYS

is_holiday(s, n) ==
    IF s = "BOL" THEN is_holiday_BOL(n) ELSE is_holiday_md(n)

\* while True: date = date - timedelta(days=1); if not self._is_holiday(date): return date
RECURSIVE walk_back_holiday(_, _)
walk_back_holiday(s, n) ==
    IF ~is_holiday(s, n - 1) THEN n - 1 ELSE walk_back_holiday(s, n - 1)

\* while True: date = date - timedelta(days=1); if date.weekday() < 5: return date
RECURSIVE walk_back_weekend(_)
walk_back_weekend(n) ==
    IF weekday(n - 1) < 5 THEN n - 1 ELSE walk_back_weekend(n - 1)

\* BaseScraper imports the class datetime and evaluates datetime.timedelta
get_previous_business_day_Base(n) == Raised

get_previous_business_day(s, n) ==
    CASE s = "Base" -> get_previous_business_day_Base(n)
      [] s \in {"BOL", "LAK"} -> walk_back_weekend(n)
      [] OTHER -> walk_back_holiday(s, n)

(***************************************************************************)
(* Calendar calls.                                                         *)
(***************************************************************************)
CalIdle == [op |-> "idle", scraper |-> None, date |-> NoDate, out |-> NoDate, walks |-> 0]

CallIsHoliday(s, d) ==
    /\ cal.op = "idle"
    /\ s \in HolidayScrapers
    /\ cal' = [op |-> "is_holiday", scraper |-> s, date |-> d,
               out |-> IF is_holiday(s, d) THEN 1 ELSE 0, walks |-> 0]
    /\ UNCHANGED <<call, now, last_request_time, lastIssued, rows, nextId, saves, run, norm, parse, cmp, sleeping>>

CallPreviousBusinessDay(s, d) ==
    /\ cal.op = "idle"
    /\ cal' = [op |-> "previous", scraper |-> s, date |-> d,
               out |-> get_previous_business_day(s, d), walks |-> 1]
    /\ UNCHANGED <<call, now, last_request_time, lastIssued, rows, nextId, saves, run, norm, parse, cmp, sleeping>>

\* the operation applied to its own result
CallPreviousAgain ==
    /\ cal.op = "previous"
    /\ cal.out # Raised
    /\ cal.walks < MaxWalks
    /\ cal' = [cal EXCEPT !.date = cal.out,
                          !.out = get_previous_business_day(cal.scraper, cal.out),
                          !.walks = @ + 1]
    /\ UNCHANGED <<call, now, last_request_time, lastIssued, rows, nextId, saves, run, norm, parse, cmp, sleeping>>

(***************************************************************************)
(* Fetching.  A response of the bank's server is an input: the transport   *)
(* raised (error), the body was empty (blank), the body lacks the table or *)
(* JSON root (nostruct), or it holds the table (table) with the set of     *)
(* currencies whose row yields a quote, and the date the page prints.      *)
(***************************************************************************)
Boot == 5          \* time.time() when the process starts; last_request_time is 0
MaxStart == 7      \* a fetch starts no later than this
MaxLatency == 1    \* seconds from sending a request to having its response

Currencies == {"USD", "THB"}
NoCur == "None"
QuoteSets == { {}, {"USD"}, {"USD", "THB"} }

\* the dates asked for, and the values of datetime.now()
FetchDates == { Ord(2025, 4, 11) + k : k \in 0..Span } \cap
              { Ord(2025, 4, 11), Ord(2025, 4, 13), Ord(2025, 4, 14),
                Ord(2025, 4, 17), Ord(2025, 4, 18) }
Todays == { Ord(2025, 4, 13), Ord(2025, 4, 17) }

Fetchers == Scrapers \ {"Base"}

\* the page's own date is read by the two legacy scrapers only
PageDates(s, d, today) ==
    IF s \in {"BCEL0", "LAK"}
    THEN {NoDate, (IF d = NoDate THEN today ELSE d), (IF d = NoDate THEN today ELSE d) - 1}
    ELSE {NoDate}

Responses(s, d, today) ==
    { [kind |-> k, quotes |-> {}, pageDate |-> NoDate] : k \in {"error", "blank", "nostruct"} }
    \cup { [kind |-> "table", quotes |-> q, pageDate |-> p] :
             q \in QuoteSets, p \in PageDates(s, d, today) }

Latency == 0..MaxLatency

\* one request as it went out, with what came back; parse tells whether the code
\* hands the response to its parser (LVB's first GET only opens the page)
Req(d, t, r) == [date |-> d, at |-> t, resp |-> r, parse |-> TRUE]
Page(t, r) == [date |-> NoDate, at |-> t, resp |-> r, parse |-> FALSE]

NoResult == [kind |-> "none", quotes |-> {}, date |-> NoDate]
Rates(q, d) == [kind |-> "dict", quotes |-> q, date |-> d]

\* rates.get(currency), parsed_date
Single(q, cur, d) ==
    IF cur \in q THEN [kind |-> "scalar", quotes |-> {cur}, date |-> d]
    ELSE [kind |-> "none", quotes |-> {}, date |-> d]

CallIdle ==
    [scraper |-> None, date |-> NoDate, currency |-> NoCur, today |-> NoDate,
     prev |-> Never, log |-> <<>>, res |-> NoResult]

\* min_request_interval of HttpClient / of the stand-alone scrapers; LVB's request_interval
min_request_interval_http == 1
min_request_interval_legacy == 5
request_interval_LVB == 1

min_request_interval(s) ==
    CASE s \in {"BCEL", "BOL", "LDB"} -> min_request_interval_http
      [] s = "LVB" -> request_interval_LVB
      [] OTHER -> min_request_interval_legacy

\* _wait_for_next_request: the time at which it returns, last being the stamp of
\* the instance
wait_until(last, s) ==
    IF now - last < min_request_interval(s) THEN last + min_request_interval(s) ELSE now

wait_for_next_request(s) == wait_until(last_request_time[s], s)

\* the date after the holiday test that precedes the first request
resolve_date(s, d) ==
    IF d # NoDate /\ is_holiday(s, d) THEN get_previous_business_day(s, d) ELSE d

\* one scraper instance is driven at a time
MayStart(s) ==
    /\ call.scraper = None
    /\ now <= MaxStart
    /\ \A o \in Scrapers \ {s} : lastIssued[o] = Never

\* the call returns: its record, the clock, the limiter's stamp
Finish(s, d, cur, today, log, res, tEnd, tLast) ==
    /\ call' = [scraper |-> s, date |-> d, currency |-> cur, today |-> today,
                prev |-> lastIssued[s], log |-> log, res |-> res]
    /\ now' = tEnd
    /\ last_request_time' = [last_request_time EXCEPT ![s] = tLast]
    /\ lastIssued' = [lastIssued EXCEPT ![s] = IF log = <<>> THEN @ ELSE log[Len(log)].at]
    /\ UNCHANGED <<cal, rows, nextId, saves, run, norm, parse, cmp, sleeping>>

\* what the parse of a response gives: the currencies quoted
parsed(r) == IF r.kind = "table" THEN r.quotes ELSE {}

\* BOLScraper.fetch_rate
fetch_rate_BOL(d, today) ==
    /\ MayStart("BOL")
    /\ LET date == resolve_date("BOL", d)
           t == wait_for_next_request("BOL")
       IN  \E r \in Responses("BOL", date, today), lat \in Latency :
             Finish("BOL", d, NoCur, today, <<Req(date, t, r)>>,
                    IF parsed(r) = {} THEN NoResult
                    ELSE Rates(parsed(r), IF date # NoDate THEN date ELSE today),
                    t + lat, t)

\* BCELScraper.fetch_rate of the scrapers package
fetch_rate_BCEL(d, today) ==
    /\ MayStart("BCEL")
    /\ LET date == resolve_date("BCEL", IF d # NoDate THEN d ELSE today)
           t == wait_for_next_request("BCEL")
       IN  \E r \in Responses("BCEL", date, today), lat \in Latency :
             Finish("BCEL", d, NoCur, today, <<Req(date, t, r)>>,
                    IF parsed(r) = {} THEN NoResult ELSE Rates(parsed(r), date),
                    t + lat, t)

\* LDBScraper.fetch_rate: the closing log line formats date, which is None when
\* no date was given
fetch_rate_LDB(d, today) ==
    /\ MayStart("LDB")
    /\ LET date == resolve_date("LDB", d)
           sent == IF date # NoDate THEN date ELSE today
           t == wait_for_next_request("LDB")
       IN  \E r \in Responses("LDB", sent, today), lat \in Latency :
             Finish("LDB", d, NoCur, today, <<Req(sent, t, r)>>,
                    IF parsed(r) = {} \/ date = NoDate THEN NoResult
                    ELSE Rates(parsed(r), date),
                    t + lat, t)

\* APBScraper.fetch_apb_rate: whatever list the JSON holds is returned
fetch_apb_rate(d, today) ==
    /\ MayStart("APB")
    /\ LET date == resolve_date("APB", IF d # NoDate THEN d ELSE today)
           t == wait_for_next_request("APB")
       IN  \E r \in Responses("APB", date, today), lat \in Latency :
             Finish("APB", d, NoCur, today, <<Req(date, t, r)>>,
                    IF r.kind = "table" THEN Rates(parsed(r), date) ELSE NoResult,
                    t + lat, t)

\* LVBScraper.fetch_lvb_rate: sleep, GET the page, sleep, POST the date
fetch_lvb_rate(d, today) ==
    /\ MayStart("LVB")
    /\ LET date == resolve_date("LVB", IF d # NoDate THEN d ELSE today)
           t1 == now + request_interval_LVB
       IN  \E g \in {"error", "blank", "nostruct", "table"}, lat \in Latency :
             LET get == Page(t1, [kind |-> g, quotes |-> {}, pageDate |-> NoDate])
                 t2 == t1 + lat + request_interval_LVB
             IN  IF g = "error"
                 THEN Finish("LVB", d, NoCur, today, <<get>>, NoResult,
                             t1 + lat, last_request_time["LVB"])
                 ELSE \E r \in Responses("LVB", date, today) :
                        Finish("LVB", d, NoCur, today, <<get, Req(date, t2, r)>>,
                               IF parsed(r) = {} THEN NoResult ELSE Rates(parsed(r), date),
                               t2 + lat, last_request_time["LVB"])

\* _parse_rate_table of the top-level bcel_scraper: (rates, parsed_date)
parse_rate_table_BCEL0(r, query_date) ==
    LET parsed_date == IF r.pageDate # NoDate THEN r.pageDate ELSE query_date
    IN  IF r.kind # "table" \/ parsed_date = NoDate \/ r.quotes = {}
        THEN NoResult
        ELSE Rates(r.quotes, parsed_date)

\* if currency and rates: return rates.get(currency), parsed_date
select_currency(res, cur) ==
    IF cur # NoCur /\ res.kind = "dict" THEN Single(res.quotes, cur, res.date) ELSE res

\* BCELScraper.fetch_bcel_rate of the top-level bcel_scraper, started at t after its
\* one wait: up to three requests, each for the day before the last.  r1, r2, r3
\* are the responses the server has for them.
bcel_run(cur, d, t, lat, r1, r2, r3) ==
    LET date == resolve_date("BCEL0", d)
        previous_day == date - 1
        two_days_ago == previous_day - 1
        q1 == Req(date, t, r1)
        p1 == parse_rate_table_BCEL0(r1, date)
        q2 == Req(previous_day, t + lat, r2)
        p2 == parse_rate_table_BCEL0(r2, previous_day)
        q3 == Req(two_days_ago, t + 2 * lat, r3)
        p3 == parse_rate_table_BCEL0(r3, two_days_ago)
    IN  IF r1.kind = "error" \/ (p1.kind = "none" /\ date = NoDate)
        THEN [log |-> <<q1>>, res |-> NoResult, tEnd |-> t + lat]
        ELSE IF p1.kind # "none"
        THEN [log |-> <<q1>>, res |-> select_currency(p1, cur), tEnd |-> t + lat]
        ELSE IF r2.kind = "error"
        THEN [log |-> <<q1, q2>>, res |-> NoResult, tEnd |-> t + 2 * lat]
        ELSE IF p2.kind # "none"
        THEN [log |-> <<q1, q2>>,
              res |-> select_currency(Rates(p2.quotes, previous_day), cur),
              tEnd |-> t + 2 * lat]
        ELSE [log |-> <<q1, q2, q3>>,
              res |-> IF r3.kind = "error" \/ p3.kind = "none" THEN NoResult
                      ELSE select_currency(Rates(p3.quotes, two_days_ago), cur),
              tEnd |-> t + 3 * lat]

\* the responses the server has for the three dates a call may ask for
BcelResponses(d, today) ==
    LET date == resolve_date("BCEL0", d)
    IN  Responses("BCEL0", date, today)
          \X Responses("BCEL0", IF date = NoDate THEN NoDate ELSE date - 1, today)
          \X Responses("BCEL0", IF date = NoDate THEN NoDate ELSE date - 2, today)

\* every way the call can go
bcel_runs(cur, d, today, t, lat) ==
    { bcel_run(cur, d, t, lat, r[1], r[2], r[3]) : r \in BcelResponses(d, today) }

fetch_bcel_rate(cur, d, today) ==
    /\ MayStart("BCEL0")
    /\ LET t == wait_for_next_request("BCEL0")
       IN  \E lat \in Latency :
             \E b \in bcel_runs(cur, d, today, t, lat) :
               Finish("BCEL0", d, cur, today, b.log, b.res, b.tEnd, t)

\* _parse_rate_table of lak_scraper: the page's date, or datetime.now()
parse_rate_table_LAK(r, today) ==
    IF r.kind # "table" \/ r.quotes = {}
    THEN NoResult
    ELSE Rates(r.quotes, IF r.pageDate # NoDate THEN r.pageDate ELSE today)

\* _make_request returns None when the transport raised or the body is empty
make_request_failed(r) == r.kind \in {"error", "blank"}

\* LAKScraper.fetch_lak_rate: no wait; a second request only when no date was given
fetch_lak_rate(cur, d, today) ==
    /\ MayStart("LAK")
    /\ \E lat \in Latency, r1 \in Responses("LAK", d, today) :
         LET q1 == Req(d, now, r1)
             p1 == parse_rate_table_LAK(r1, today)
             previous_day == get_previous_business_day("LAK", today)
         IN  IF make_request_failed(r1)
             THEN Finish("LAK", d, cur, today, <<q1>>, NoResult, now + lat,
                         last_request_time["LAK"])
             ELSE IF p1.kind # "none" \/ d # NoDate
             THEN Finish("LAK", d, cur, today, <<q1>>, select_currency(p1, cur), now + lat,
                         last_request_time["LAK"])
             ELSE \E r2 \in Responses("LAK", previous_day, today) :
               LET q2 == Req(previous_day, now + lat, r2)
                   p2 == IF make_request_failed(r2) THEN p1
                         ELSE parse_rate_table_LAK(r2, today)
               IN  Finish("LAK", d, cur, today, <<q1, q2>>, select_currency(p2, cur),
                          now + 2 * lat, last_request_time["LAK"])

\* the caller has its result; the instance is kept
Return ==
    /\ call.scraper # None
    /\ call' = CallIdle
    /\ UNCHANGED <<cal, now, last_request_time, lastIssued, rows, nextId, saves, run, norm, parse, cmp, sleeping>>

CurArgs == {NoCur} \cup Currencies
DateArgs == {NoDate} \cup FetchDates

(***************************************************************************)
(* The store: table exchange_rates of ExchangeRateDB.                      *)
(***************************************************************************)
MaxSaves == 3      \* direct calls of save_rate in one behaviour

Banks == {"BCEL", "BOL"}
RateTypes == {"buy", "sell"}
RateValues == {0, 100}
SaveDates == { Ord(2025, 4, 10), Ord(2025, 4, 11) }

\* the columns of the UNIQUE constraint: (currency, bank, date)
conflicts(x, c, b, ds) == x.currency = c /\ x.bank = b /\ x.date = ds

\* a statement that clears the date before it inserts
insert_or_replace_clearing_date(rws, id, c, r, b, ds) ==
    { x \in rws : x.date # ds }
      \cup { [id |-> id, currency |-> c, rate |-> r, bank |-> b, date |-> ds] }

\* INSERT OR REPLACE INTO exchange_rates (currency, rate, bank, date): the rows
\* that conflict are deleted, the new row takes the next id
insert_or_replace(rws, id, c, r, b, ds) ==
    { x \in rws : ~conflicts(x, c, b, ds) }
      \cup { [id |-> id, currency |-> c, rate |-> r, bank |-> b, date |-> ds] }

\* ExchangeRateDB.save_rate(currency, rate, date, bank).  rate_type is the side
\* of the quote the caller took the rate from; the method has no parameter for
\* it, and saves remembers it.  The caller holds no comparison table: it makes
\* its calls of the store one after another.
save_rate(c, t, r, d, b) ==
    /\ Len(saves) < MaxSaves
    /\ cmp.fn = None
    /\ rows' = insert_or_replace(rows, nextId, c, r, b, strftime_ymd(d))
    /\ nextId' = nextId + 1
    /\ saves' = Append(saves, [currency |-> c, rate_type |-> t, rate |-> r,
                               date |-> d, bank |-> b])
    /\ UNCHANGED <<cal, call, now, last_request_time, lastIssued, run, norm, parse, cmp, sleeping>>

\* ExchangeRateDB.get_rates_by_date(date): {currency: {bank: rate}}; of several
\* rows for one currency and bank the one fetched last is kept
get_rates_by_date(d) ==
    LET found == { x \in rows : x.date = strftime_ymd(d) }
        of(c, b) == { x \in found : x.currency = c /\ x.bank = b }
        last(c, b) == CHOOSE x \in of(c, b) : \A y \in of(c, b) : y.id <= x.id
    IN  [c \in { x.currency : x \in found } |->
           [b \in { x.bank : x \in { y \in found : y.currency = c } } |-> last(c, b).rate]]

(***************************************************************************)
(* The comparison routines.  A value of a table is a number, or None, which *)
(* is printed as N/A.                                                       *)
(***************************************************************************)
Num(v) == [na |-> FALSE, v |-> v]
NA == [na |-> TRUE, v |-> 0]

\* rates of a comparison are kept as the set of their (bank, currency, rate_type,
\* rate) entries; banks are the banks the dict has a key for
CmpIdle ==
    [fn |-> None, banks |-> {}, rates |-> {}, date |-> NoDate, raised |-> FALSE,
     table |-> {}]

\* one entry of the list ExchangeRateDB.get_rate_comparison returns
comparison_entry(c, bol_rate, bcel_rate) ==
    [currency |-> c, rate_type |-> None, bol |-> Num(bol_rate), bcel |-> Num(bcel_rate),
     difference |-> Num(bcel_rate - bol_rate),
     difference_percent |->
         Num(IF bol_rate # 0 THEN ((bcel_rate - bol_rate) * 100) \div bol_rate ELSE 0)]

\* for currency, bank_rates in rates.items(): a currency gets an entry when the
\* rates of the date hold it for BOL and for BCEL
comparison(rates) ==
    { comparison_entry(c, rates[c]["BOL"], rates[c]["BCEL"]) :
        c \in { k \in DOMAIN rates : {"BOL", "BCEL"} \subseteq DOMAIN rates[k] } }

\* ExchangeRateDB.get_rate_comparison(date)
get_rate_comparison(d) ==
    /\ cmp.fn = None
    /\ cmp' = [fn |-> "get_rate_comparison",
               banks |-> { x.bank : x \in { y \in rows : y.date = strftime_ymd(d) } },
               rates |-> { [bank |-> x.bank, currency |-> x.currency, rate_type |-> None,
                            rate |-> x.rate] : x \in { y \in rows : y.date = strftime_ymd(d) } },
               date |-> d, raised |-> FALSE,
               table |-> comparison(get_rates_by_date(d))]
    /\ UNCHANGED <<cal, call, now, last_request_time, lastIssued, rows, nextId, saves,
                   run, norm, parse, sleeping>>

\* rates.get(bank, {}).get(f"{currency}_{rate_type}")
get(rates, b, c, t) ==
    IF \E x \in rates : x.bank = b /\ x.currency = c /\ x.rate_type = t
    THEN Num((CHOOSE x \in rates : x.bank = b /\ x.currency = c /\ x.rate_type = t).rate)
    ELSE NA

\* a line that takes BOL's value from BCEL's
display_line_reversed(c, t, bol, bcel) ==
    [currency |-> c, rate_type |-> t, bol |-> bol, bcel |-> bcel,
     difference |-> IF ~bol.na /\ ~bcel.na THEN Num(bol.v - bcel.v) ELSE NA,
     difference_percent |-> NA]

\* one line of RateComparator.display_comparison
display_line(c, t, bol, bcel) ==
    [currency |-> c, rate_type |-> t, bol |-> bol, bcel |-> bcel,
     difference |-> IF ~bol.na /\ ~bcel.na THEN Num(bcel.v - bol.v) ELSE NA,
     difference_percent |->
         IF ~bol.na /\ ~bcel.na
         THEN Num(IF bol.v # 0 THEN ((bcel.v - bol.v) * 100) \div bol.v ELSE 0)
         ELSE NA]

\* RateComparator.display_comparison(rates), no date given.  The class sets no
\* logger: with an empty dict self.logger.warning raises AttributeError.
display_comparison(banks, rates) ==
    /\ cmp' = IF banks = {}
              THEN [CmpIdle EXCEPT !.fn = "display_comparison", !.raised = TRUE]
              ELSE [fn |-> "display_comparison", banks |-> banks, rates |-> rates,
                    date |-> NoDate, raised |-> FALSE,
                    table |-> { display_line(c, t, get(rates, "BOL", c, t),
                                             get(rates, "BCEL", c, t)) :
                                  c \in { x.currency : x \in rates }, t \in RateTypes }]
    /\ UNCHANGED <<cal, call, now, last_request_time, lastIssued, rows, nextId, saves,
                   run, norm, parse, sleeping>>

\* the caller is done with the table
CompareReturn ==
    /\ cmp.fn # None
    /\ cmp' = CmpIdle
    /\ UNCHANGED <<cal, call, now, last_request_time, lastIssued, rows, nextId, saves,
                   run, norm, parse, sleeping>>

\* the dicts display_comparison is called with
NextCmp ==
    \/ /\ cmp.fn = None
       /\ \E banks \in SUBSET Banks :
         \E keys \in SUBSET (banks \X Currencies \X RateTypes) :
           \E f \in [keys -> RateValues] :
             display_comparison(banks, { [bank |-> k[1], currency |-> k[2],
                                          rate_type |-> k[3], rate |-> f[k]] : k \in keys })
    \/ CompareReturn

NextDB ==
    \/ \E c \in Currencies, t \in RateTypes, r \in RateValues, d \in SaveDates, b \in Banks :
         save_rate(c, t, r, d, b)
    \/ \E d \in SaveDates : get_rate_comparison(d)
    \/ CompareReturn

\* the rows stored for a currency, date and bank
RowsFor(c, d, b) == { x \in rows : conflicts(x, c, b, strftime_ymd(d)) }

\* the rate types of the quotes saved for a currency, date and bank
TypesSaved(c, d, b) ==
    { saves[i].rate_type : i \in { j \in 1..Len(saves) :
          saves[j].currency = c /\ saves[j].date = d /\ saves[j].bank = b } }

\* C8: the store holds one row per (currency, rate_type, date, bank) saved: a buy
\* rate and a sell rate of one currency, date and bank are two rows.
C8_OneRowPerCurrencyRateTypeDateBank ==
    \A c \in Currencies, d \in SaveDates, b \in Banks :
        Cardinality(RowsFor(c, d, b)) = Cardinality(TypesSaved(c, d, b))

Key(s) == <<s.currency, s.rate_type, s.date, s.bank>>

\* C9: whatever was saved under a (currency, rate_type, date, bank) key, one row
\* holds the key, and a query gives the rate of the last save under that key.
C9_QueryReturnsLastRateSavedUnderKey ==
    \A i \in 1..Len(saves) :
        LET s == saves[i]
        IN  /\ Cardinality(RowsFor(s.currency, s.date, s.bank)) = 1
            /\ (\A j \in (i + 1)..Len(saves) : Key(saves[j]) # Key(s)) =>
                  get_rates_by_date(s.date)[s.currency][s.bank] = s.rate

\* with the store's own key (currency, bank, date): one row per key saved, and a
\* query gives the rate of the last save under it
StoredKeyHoldsLastRate ==
    \A i \in 1..Len(saves) :
        LET s == saves[i]
        IN  /\ Cardinality(RowsFor(s.currency, s.date, s.bank)) = 1
            /\ (\A j \in (i + 1)..Len(saves) :
                    <<saves[j].currency, saves[j].date, saves[j].bank>>
                      # <<s.currency, s.date, s.bank>>) =>
                  get_rates_by_date(s.date)[s.currency][s.bank] = s.rate

(***************************************************************************)
(* The command-line programs: main.py and get_bcel_rate.py.                *)
(***************************************************************************)
MaxRuns == 1       \* program runs in one behaviour

RunIdle ==
    [prog |-> None, query |-> NoDate, today |-> NoDate, bcel |-> NoResult,
     bol |-> NoResult, shown |-> {}, write_failed |-> None, n |-> 0,
     table |-> {}, notice |-> {}, diagnostic |-> FALSE, exit |-> 0]

\* the order in which a rates dict is walked
CurrencyOrder == <<"USD", "THB">>
items(q) == SelectSeq(CurrencyOrder, LAMBDA c : c \in q)

\* the keys of the BOL rates that get_bcel_rate.py reads: f"{currency}_buy"
buy_key(c) == IF c = "USD" THEN "USD_buy" ELSE "THB_buy"

\* for currency, rate in rates.items(): db.save_rate(currency, rate, date, bank)
RECURSIVE save_items(_, _, _, _, _, _)
save_items(rws, id, keys, r, d, b) ==
    IF keys = <<>> THEN rws
    ELSE save_items(insert_or_replace(rws, id, Head(keys), r, b, strftime_ymd(d)),
                    id + 1, Tail(keys), r, d, b)

\* fetch_and_save_rates and main of main.py.  The scrapers of the package have
\* fetch_rate; bcel_scraper.fetch_bcel_rate(date=current_date) raises
\* AttributeError, the except clause returns ten Nones, and main logs that no
\* rate could be had and returns: the process ends with status 0.
main_py(query, today) ==
    /\ run.n < MaxRuns
    /\ run' = [prog |-> "main.py", query |-> query, today |-> today, bcel |-> NoResult,
               bol |-> NoResult, shown |-> {}, write_failed |-> None, n |-> run.n + 1,
               table |-> {}, notice |-> {}, diagnostic |-> TRUE, exit |-> 0]
    /\ UNCHANGED <<cal, call, now, last_request_time, lastIssued, rows, nextId, saves, norm, parse, cmp, sleeping>>

\* what fetch_bol_rate of the top-level bol_scraper may give for a date
BolOutcomes(d, today) ==
    LET e == IF d # NoDate THEN d ELSE today
    IN  {NoResult} \cup { Rates(q, bd) : q \in QuoteSets \ {{}}, bd \in {e, e - 1} }

\* the table get_bcel_rate.py prints: a line for each currency of bcel_rates,
\* with BOL's buy rate of the currency, if bol_rates has it
comparison_table(bcel_quotes, bcel_rate, bol_quotes, bol_rate) ==
    { [currency |-> c, rate_type |-> "buy",
       bol |-> IF c \in bol_quotes THEN Num(bol_rate) ELSE NA,
       bcel |-> Num(bcel_rate),
       difference |-> IF c \in bol_quotes THEN Num(bcel_rate - bol_rate) ELSE NA,
       difference_percent |->
           IF c \in bol_quotes /\ bol_rate # 0
           THEN Num(((bcel_rate - bol_rate) * 100) \div bol_rate) ELSE NA] :
      c \in bcel_quotes }

\* the notes get_bcel_rate.py prints under the table: with a query date, the
\* banks whose data date is another one; without, that the two data dates differ
notices(query_date, bcel_date, bol_date) ==
    IF query_date # NoDate
    THEN { bk \in Banks : /\ (IF bk = "BCEL" THEN bcel_date ELSE bol_date) # NoDate
                          /\ (IF bk = "BCEL" THEN bcel_date ELSE bol_date) # query_date }
    ELSE IF bcel_date # NoDate /\ bol_date # NoDate /\ bcel_date # bol_date
         THEN {"inconsistent"} ELSE {}

\* main of get_bcel_rate.py: BCEL is fetched by a new instance of the top-level
\* scraper, BOL for BCEL's date; rates are saved and the table is printed only
\* when BCEL gave rates.  v is the rate BCEL's quotes carry.  f is the
\* save_rate call of the run in which the store raises (0: in none); save_rate
\* raises again, and main's except clause logs the error and prints nothing.
\* w is the rate BOL's quotes carry.  main returns on every path: the process
\* ends with status 0.
get_bcel_rate_main(query, today) ==
    /\ run.n < MaxRuns
    /\ LET t == wait_until(0, "BCEL0")
       IN  \E lat \in Latency :
           \E b \in { [res |-> x.res, tEnd |-> x.tEnd] :
                        x \in bcel_runs(NoCur, query, today, t, lat) },
              v \in RateValues, w \in RateValues :
             LET bcel_rates == b.res
                 effective_bol_query_date ==
                     IF bcel_rates.date # NoDate THEN bcel_rates.date ELSE query
             IN  \E bol_rates \in BolOutcomes(effective_bol_query_date, today) :
                   LET bcel_keys == items(bcel_rates.quotes)
                       bol_keys == [i \in 1..Len(items(bol_rates.quotes)) |->
                                       buy_key(items(bol_rates.quotes)[i])]
                       n1 == Len(bcel_keys)
                       n2 == Len(bol_keys)
                   IN  \E f \in 0..(IF bcel_rates.kind = "none" THEN 0 ELSE n1 + n2) :
                         LET done == IF bcel_rates.kind = "none" THEN 0
                                     ELSE IF f = 0 THEN n1 + n2 ELSE f - 1
                             done1 == IF done < n1 THEN done ELSE n1
                             saved1 == save_items(rows, nextId, SubSeq(bcel_keys, 1, done1),
                                                  v, bcel_rates.date, "BCEL")
                             saved2 == save_items(saved1, nextId + done1,
                                                  SubSeq(bol_keys, 1, done - done1),
                                                  w, bol_rates.date, "BOL")
                         IN  /\ run' = [prog |-> "get_bcel_rate.py", query |-> query,
                                        today |-> today, bcel |-> bcel_rates,
                                        bol |-> bol_rates,
                                        shown |-> IF bcel_rates.kind = "none" \/ f # 0 THEN {}
                                                  ELSE IF bol_rates.kind = "none" THEN {"BCEL"}
                                                  ELSE {"BCEL", "BOL"},
                                        write_failed |-> IF f = 0 THEN None
                                                         ELSE IF f <= n1 THEN "BCEL" ELSE "BOL",
                                        n |-> run.n + 1,
                                        table |-> IF bcel_rates.kind = "none" \/ f # 0 THEN {}
                                                  ELSE comparison_table(bcel_rates.quotes, v,
                                                                        bol_rates.quotes, w),
                                        notice |-> IF bcel_rates.kind = "none" \/ f # 0 THEN {}
                                                   ELSE notices(query, bcel_rates.date,
                                                                bol_rates.date),
                                        diagnostic |-> bcel_rates.kind = "none" \/ f # 0,
                                        exit |-> 0]
                             /\ rows' = saved2
                             /\ nextId' = nextId + done
                             /\ now' = b.tEnd
                             /\ UNCHANGED <<cal, call, last_request_time, lastIssued, saves, norm, parse, cmp, sleeping>>

\* the stores an earlier run of get_bcel_rate.py left: USD and THB of both
\* banks, for one date
StoredBefore ==
    { save_items(save_items({}, 1, <<"USD", "THB">>, 100, d, "BCEL"),
                 3, <<"USD_buy", "THB_buy">>, 100, d, "BOL") :
        d \in { Ord(2025, 4, 12), Ord(2025, 4, 13) } }

NextRun ==
    \/ \E query \in DateArgs, today \in Todays : main_py(query, today)
    \/ \E query \in DateArgs, today \in Todays : get_bcel_rate_main(query, today)

\* the banks whose fetch gave rates in the run
Fetched == { bk \in Banks : (IF bk = "BCEL" THEN run.bcel ELSE run.bol).kind # "none" }

\* C10: the rates of every bank whose fetch succeeded are shown, whether or not
\* another bank's fetch failed.
C10_RatesOfSucceededBanksShown ==
    run.prog # None => Fetched \subseteq run.shown

\* the banks whose rates the run left in the store
Stored == { bk \in Banks : \E x \in rows : x.bank = bk }

\* C11: when the store raised while one bank's rates were being saved, the rates
\* of every bank fetched are still shown, and those of the other banks fetched
\* are still saved.
C11_WriteFailureAbortsOnlyThatBanksSave ==
    (run.prog # None /\ run.write_failed # None) =>
        /\ Fetched \subseteq run.shown
        /\ Fetched \ {run.write_failed} \subseteq Stored


(***************************************************************************)
(* Price texts and their normalization.  A text is a sequence of          *)
(* characters.  A float is the decimal number m / 10^e with the fewest     *)
(* decimals e, so that float() and str() are exact on the texts of the     *)
(* model and two floats are equal exactly when their records are.  None    *)
(* and a raised ValueError are the record NaN, whose ok is FALSE.          *)
(***************************************************************************)
MaxLen == 3

Alphabet == {"1", "5", ",", ".", "-", "x"}

Samples ==
    { <<"1", ",", "2", "3", "4", ".", "5", "6">>,
      <<"1", ".", "2", "3", "4", ",", "5", "6">>,
      <<"1", "4", ",", "5", "0", "0">>,
      <<"1", "5", "0", "0">>,
      <<"2", ",", "9", "6", "5">>,
      <<" ", "5", " ">> }

Texts == UNION { [1..n -> Alphabet] : n \in 0..MaxLen } \cup Samples

NormCurrencies == {"USD", "CNY", "KRW"}

DigitString == <<"0", "1", "2", "3", "4", "5", "6", "7", "8", "9">>
Digit == { DigitString[i] : i \in 1..10 }
DigitVal(c) == (CHOOSE i \in 1..10 : DigitString[i] = c) - 1

RECURSIVE Pow10(_)
Pow10(n) == IF n = 0 THEN 1 ELSE 10 * Pow10(n - 1)

NaN == [ok |-> FALSE, m |-> 0, e |-> 0]

RECURSIVE Float(_, _)
Float(m, e) ==
    IF e > 0 /\ m % 10 = 0 THEN Float(m \div 10, e - 1)
    ELSE [ok |-> TRUE, m |-> m, e |-> e]

RECURSIVE NatVal(_)
NatVal(s) ==
    IF s = <<>> THEN 0
    ELSE NatVal(SubSeq(s, 1, Len(s) - 1)) * 10 + DigitVal(s[Len(s)])

RECURSIVE NatStr(_)
NatStr(n) ==
    IF n < 10 THEN <<DigitString[n + 1]>>
    ELSE Append(NatStr(n \div 10), DigitString[(n % 10) + 1])

RECURSIVE lstrip(_)
lstrip(s) == IF s # <<>> /\ s[1] = " " THEN lstrip(Tail(s)) ELSE s

RECURSIVE rstrip(_)
rstrip(s) ==
    IF s # <<>> /\ s[Len(s)] = " " THEN rstrip(SubSeq(s, 1, Len(s) - 1)) ELSE s

strip(s) == rstrip(lstrip(s))

replace(s, a, b) == [i \in 1..Len(s) |-> IF s[i] = a THEN b ELSE s[i]]
remove(s, a) == SelectSeq(s, LAMBDA c : c # a)
sub_non_digit_dot(s) == SelectSeq(s, LAMBDA c : c \in Digit \cup {"."})
count(s, a) == Len(SelectSeq(s, LAMBDA c : c = a))

\* float(s) of Python on the characters of the model: surrounding blanks
\* and one leading minus are accepted, then digits with at most one dot
\* and at least one digit; anything else raises ValueError.
decimal(body, dot) ==
    Float(NatVal(SubSeq(body, 1, dot - 1) \o SubSeq(body, dot + 1, Len(body))),
          IF dot > Len(body) THEN 0 ELSE Len(body) - dot)

dot_of(body) ==
    IF count(body, ".") = 1 THEN CHOOSE i \in 1..Len(body) : body[i] = "."
    ELSE Len(body) + 1

unsigned(body) ==
    IF /\ \A i \in 1..Len(body) : body[i] \in Digit \cup {"."}
       /\ count(body, ".") <= 1
       /\ \E i \in 1..Len(body) : body[i] \in Digit
    THEN decimal(body, dot_of(body))
    ELSE NaN

negate(x) == IF x.ok THEN Float(0 - x.m, x.e) ELSE NaN

signed(t) ==
    IF t # <<>> /\ t[1] = "-" THEN negate(unsigned(Tail(t))) ELSE unsigned(t)

float(s) == signed(strip(s))

\* str(x) of a float: the whole part, a dot, the decimals, "0" where there
\* is none.
RECURSIVE zfill(_, _)
zfill(s, n) == IF Len(s) >= n THEN s ELSE zfill(<<"0">> \o s, n)

str(x) ==
    LET digits == zfill(NatStr(IF x.m < 0 THEN 0 - x.m ELSE x.m), x.e + 1)
        cut == Len(digits) - x.e
    IN  (IF x.m < 0 THEN <<"-">> ELSE <<>>)
        \o SubSeq(digits, 1, cut) \o <<".">>
        \o (IF x.e = 0 THEN <<"0">> ELSE SubSeq(digits, cut + 1, Len(digits)))

\* rate < 10 and rate > 0: rate *= 1000
adjust_CNY(rate) ==
    IF rate.m < 10 * Pow10(rate.e) /\ rate.m > 0
    THEN IF rate.e >= 3 THEN Float(rate.m, rate.e - 3)
         ELSE Float(rate.m * Pow10(3 - rate.e), 0)
    ELSE rate

\* rate > 1000: rate /= 100
adjust_KRW(rate) ==
    IF rate.m > 1000 * Pow10(rate.e) THEN Float(rate.m, rate.e + 2) ELSE rate

\* The end of BOLScraper._extract_rate_from_text: None for an empty residue
\* or a ValueError of float(), else the float read and the adjusted rate.
adjustment_BOL(rate, currency_code) ==
    IF ~rate.ok THEN <<NaN, NaN>>
    ELSE IF currency_code = "CNY" THEN <<rate, adjust_CNY(rate)>>
    ELSE <<rate, rate>>

\* A variant of BOLScraper._extract_rate_from_text that leaves the dots of
\* the text in place.
extract_rate_from_text_BOL_dots_kept(text, currency_code) ==
    LET cleaned_text == strip(text)
        standardized_text == sub_non_digit_dot(replace(cleaned_text, ",", "."))
    IN  IF cleaned_text = <<"-">> \/ cleaned_text = <<>> THEN <<NaN, NaN>>
        ELSE adjustment_BOL(float(standardized_text), currency_code)

\* BOLScraper._extract_rate_from_text: the float read from the text, then
\* the adjusted rate.
extract_rate_from_text_BOL(text, currency_code) ==
    LET cleaned_text == strip(text)
        text_no_dots == remove(cleaned_text, ".")
        standardized_text == sub_non_digit_dot(replace(text_no_dots, ",", "."))
    IN  IF cleaned_text = <<"-">> \/ cleaned_text = <<>> THEN <<NaN, NaN>>
        ELSE adjustment_BOL(float(standardized_text), currency_code)

\* The end of BCELScraper._extract_rate_from_text.
adjustment_BCEL(rate, currency_code) ==
    IF ~rate.ok THEN <<NaN, NaN>>
    ELSE IF currency_code = "CNY" THEN <<rate, adjust_CNY(rate)>>
    ELSE IF currency_code = "KRW" THEN <<rate, adjust_KRW(rate)>>
    ELSE <<rate, rate>>

\* A variant of BCELScraper._extract_rate_from_text that takes the dot for
\* the thousands separator and the comma for the decimal separator.
extract_rate_from_text_BCEL_dot_thousands(text, currency_code) ==
    LET cleaned_text == strip(text)
        standardized_text ==
            sub_non_digit_dot(replace(remove(cleaned_text, "."), ",", "."))
    IN  IF cleaned_text = <<"-">> \/ cleaned_text = <<>> THEN <<NaN, NaN>>
        ELSE adjustment_BCEL(float(standardized_text), currency_code)

\* BCELScraper._extract_rate_from_text, the same text in the package and in
\* the top-level module.
extract_rate_from_text_BCEL(text, currency_code) ==
    LET cleaned_text == strip(text)
        standardized_text == sub_non_digit_dot(remove(cleaned_text, ","))
    IN  IF cleaned_text = <<"-">> \/ cleaned_text = <<>> THEN <<NaN, NaN>>
        ELSE adjustment_BCEL(float(standardized_text), currency_code)

extract_rate_from_text_BCEL0(text, currency_code) ==
    extract_rate_from_text_BCEL(text, currency_code)

\* _parse_rate of the APB scraper: 0.0 where float() raises.
parse_rate_APB(rate_str) ==
    LET rate == float(remove(strip(rate_str), ","))
    IN  IF rate.ok THEN rate ELSE Float(0, 0)

\* _parse_rate of the LVB scraper and of the package's BCEL scraper.
parse_rate_LVB(rate_str) ==
    LET rate == float(replace(remove(strip(rate_str), "."), ",", "."))
    IN  IF rate.ok THEN rate ELSE Float(0, 0)

parse_rate_BCEL(rate_str) == parse_rate_LVB(rate_str)

\* The price of a row in BCELScraper.parse: '-' and a ValueError skip the row.
price_BCEL(price_str) ==
    IF price_str = <<"-">> THEN NaN ELSE float(remove(price_str, ","))

\* The price of an item in LDBScraper.parse.
price_LDB(price) == float(price)

Normalizers ==
    {"BOL", "BCEL", "BCEL0", "APB", "LVB", "BCEL._parse_rate", "BCEL.parse", "LDB.parse"}

Scaling == {"BOL", "BCEL", "BCEL0"}

normalize(fn, text, cur) ==
    CASE fn = "BOL" -> extract_rate_from_text_BOL(text, cur)
      [] fn = "BCEL" -> extract_rate_from_text_BCEL(text, cur)
      [] fn = "BCEL0" -> extract_rate_from_text_BCEL0(text, cur)
      [] fn = "APB" -> <<parse_rate_APB(text), parse_rate_APB(text)>>
      [] fn = "LVB" -> <<parse_rate_LVB(text), parse_rate_LVB(text)>>
      [] fn = "BCEL._parse_rate" -> <<parse_rate_BCEL(text), parse_rate_BCEL(text)>>
      [] fn = "BCEL.parse" -> <<price_BCEL(text), price_BCEL(text)>>
      [] fn = "LDB.parse" -> <<price_LDB(text), price_LDB(text)>>

NormIdle ==
    [fn |-> None, cur |-> None, text |-> <<>>, raw |-> NaN, out |-> NaN,
     adjustment_applied |-> FALSE, again |-> FALSE, re |-> NaN,
     prev |-> [fn |-> None, cur |-> None, adjustment_applied |-> FALSE]]

\* One call of a normalizer on a price text.
CallNormalize ==
    /\ norm.fn = None
    /\ \E fn \in Normalizers, text \in Texts, cur \in NormCurrencies :
        LET r == normalize(fn, text, cur)
        IN  norm' = [norm EXCEPT !.fn = fn,
                                 !.cur = IF fn \in Scaling THEN cur ELSE None,
                                 !.text = text, !.raw = r[1], !.out = r[2],
                                 !.adjustment_applied = r[1] # r[2]]
    /\ UNCHANGED <<cal, call, now, last_request_time, lastIssued, rows,
                   nextId, saves, run, parse, cmp, sleeping>>

\* The same normalizer called on the printed form of the rate it returned.
CallNormalizeAgain ==
    /\ norm.fn # None
    /\ norm.out.ok
    /\ ~norm.again
    /\ norm' = [norm EXCEPT !.again = TRUE,
                            !.re = normalize(norm.fn, str(norm.out),
                                             IF norm.cur = None THEN "USD" ELSE norm.cur)[2]]
    /\ UNCHANGED <<cal, call, now, last_request_time, lastIssued, rows,
                   nextId, saves, run, parse, cmp, sleeping>>

\* The caller has the rate; what is kept of the call is the adjustment the
\* source applied to the currency.
NormalizeReturn ==
    /\ norm.fn # None
    /\ norm' = [NormIdle EXCEPT !.prev =
                    IF norm.fn \in Scaling /\ norm.out.ok
                    THEN [fn |-> norm.fn, cur |-> norm.cur,
                          adjustment_applied |-> norm.adjustment_applied]
                    ELSE norm.prev]
    /\ UNCHANGED <<cal, call, now, last_request_time, lastIssued, rows,
                   nextId, saves, run, parse, cmp, sleeping>>

NextNorm ==
    \/ CallNormalize
    \/ CallNormalizeAgain
    \/ NormalizeReturn

(***************************************************************************)
(* Parsing.  A payload is the table or JSON list of a response: root says  *)
(* whether the table or root structure is there, rows are its data rows or *)
(* items in page order.  A row has a shape: "row" is a row with all its    *)
(* cells or keys, "short" lacks cells or keys, "junk" is a header row of   *)
(* a table and, in JSON, an item that is not an object (null, or with      *)
(* fx_detail null).  band is the cash-note denomination printed with the   *)
(* currency code.  A quote records the row and the band it was read from.  *)
(***************************************************************************)
MaxRows == 2

Dash == <<"-">>
PriceTexts == { <<"5">>, Dash, <<"x">> }
ParseCurrencies == {"USD", "EUR", "THB", "HKD"}
Bands(cur) == IF cur \in {"USD", "EUR"} THEN {"1-20", "50-100", "50-500"} ELSE {""}

ShortRow == [shape |-> "short", currency |-> None, band |-> "", buy |-> <<>>, sell |-> <<>>]
JunkRow == [shape |-> "junk", currency |-> None, band |-> "", buy |-> <<>>, sell |-> <<>>]

RowInputs ==
    { [shape |-> "row", currency |-> c, band |-> b, buy |-> p, sell |-> q] :
        c \in ParseCurrencies, b \in {"", "1-20", "50-100", "50-500"},
        p \in PriceTexts, q \in PriceTexts }

Rows == { r \in RowInputs : r.band \in Bands(r.currency) } \cup {ShortRow, JunkRow}

NoPayload == [root |-> FALSE, rows |-> <<>>]

Payloads ==
    {NoPayload} \cup
    { [root |-> TRUE, rows |-> r] : r \in UNION { [1..n -> Rows] : n \in 0..MaxRows } }

Quote(cur, buy, sell, i, band) ==
    [currency |-> cur, buy |-> buy, sell |-> sell, row |-> i, band |-> band]

Continue(rates) == [rates |-> rates, raised |-> FALSE]
Raise(rates) == [rates |-> rates, raised |-> TRUE]
Has(rates, cur) == \E k \in 1..Len(rates) : rates[k].currency = cur

\* One pass of the row loop of BCELScraper.parse.
row_BCEL(rates, row, i) ==
    LET buy == price_BCEL(row.buy)
        sell == price_BCEL(row.sell)
    IN  IF row.shape # "row" THEN Continue(rates)
        ELSE IF row.buy = Dash \/ row.sell = Dash THEN Continue(rates)
        ELSE IF ~buy.ok \/ ~sell.ok THEN Continue(rates)
        ELSE IF row.currency \in {"USD", "EUR"} /\ row.band \notin {"50-100", "50-500"}
        THEN Continue(rates)
        ELSE Continue(Append(rates, Quote(row.currency, buy, sell, i, row.band)))

\* One pass of the item loop of LDBScraper.parse.
row_LDB(rates, row, i) ==
    LET buy == price_LDB(row.buy)
        sell == price_LDB(row.sell)
    IN  IF row.shape = "junk" THEN Raise(rates)
        ELSE IF row.shape = "short" THEN Continue(rates)
        ELSE IF ~buy.ok \/ ~sell.ok THEN Continue(rates)
        ELSE Continue(Append(rates, Quote(row.currency, buy, sell, i, row.band)))

\* One pass of the item loop of fetch_apb_rate.
row_APB(rates, row, i) ==
    IF row.shape = "junk" THEN Raise(rates)
    ELSE IF row.shape = "short" THEN Continue(rates)
    ELSE Continue(Append(rates, Quote(row.currency, parse_rate_APB(row.buy),
                                      parse_rate_APB(row.sell), i, row.band)))

\* One pass of the row loop of BOLScraper.parse.
row_BOL(rates, row, i) ==
    LET buy_rate == extract_rate_from_text_BOL(row.buy, row.currency)[2]
        sell_rate == extract_rate_from_text_BOL(row.sell, row.currency)[2]
    IN  IF row.shape # "row" THEN Continue(rates)
        ELSE IF buy_rate.ok \/ sell_rate.ok
        THEN Continue(Append(rates, Quote(row.currency, buy_rate, sell_rate, i, row.band)))
        ELSE Continue(rates)

\* One pass of the row loop of the package's BCELScraper._parse_rate_table.
row_BCEL_table(rates, row, i) ==
    LET buy_rate == extract_rate_from_text_BCEL(row.buy, row.currency)[2]
        sell_rate == extract_rate_from_text_BCEL(row.sell, row.currency)[2]
    IN  IF row.shape # "row" THEN Continue(rates)
        ELSE IF row.currency = "USD" /\ row.band # "50-100" THEN Continue(rates)
        ELSE IF row.currency = "EUR" /\ row.band # "50-500" THEN Continue(rates)
        ELSE IF row.currency \in {"HKD", "VND"}
        THEN IF sell_rate.ok
             THEN Continue(Append(rates, Quote(row.currency, NaN, sell_rate, i, row.band)))
             ELSE Continue(rates)
        ELSE IF buy_rate.ok
        THEN Continue(Append(rates, Quote(row.currency, buy_rate,
                                          IF sell_rate.ok THEN sell_rate ELSE buy_rate,
                                          i, row.band)))
        ELSE Continue(rates)

\* One pass of the row loop of the top-level BCELScraper._parse_rate_table,
\* whose table has one rate column, read here from the row's buy text.
row_BCEL0(rates, row, i) ==
    LET is_target_usd_range == row.currency = "USD" /\ row.band = "50-100"
        rate == extract_rate_from_text_BCEL0(row.buy, row.currency)[2]
    IN  IF row.shape # "row" THEN Continue(rates)
        ELSE IF row.buy = <<>> \/ row.buy = Dash THEN Continue(rates)
        ELSE IF row.band # "" /\ row.currency = "USD" /\ ~is_target_usd_range
        THEN Continue(rates)
        ELSE IF ~is_target_usd_range /\ Has(rates, row.currency) /\ row.currency # "USD"
        THEN Continue(rates)
        ELSE IF row.currency = "USD" /\ ~is_target_usd_range /\ Has(rates, "USD")
        THEN Continue(rates)
        ELSE IF ~rate.ok THEN Continue(rates)
        ELSE IF row.currency = "USD" /\ is_target_usd_range
        THEN Continue(Append(rates, Quote("USD", rate, NaN, i, row.band)))
        ELSE IF row.currency # "USD" /\ ~Has(rates, row.currency)
        THEN Continue(Append(rates, Quote(row.currency, rate, NaN, i, row.band)))
        ELSE Continue(rates)

\* The rows of the LVB table: one row per currency, the prices of its
\* denominations on the lines of one cell, the denominations on the lines
\* of another.
LinesLVB == UNION { [1..n -> {<<"5">>, Dash}] : n \in 0..2 }
DenomsLVB == { <<"1-20", "50-100">>, <<"50-100", "1-20">> }

RowsLVB ==
    { [shape |-> "row", currency |-> c, denomination_lines |-> d,
       buy_lines |-> b, sell_lines |-> s] :
        c \in {"USD", "THB"}, d \in DenomsLVB, b \in LinesLVB, s \in LinesLVB }
    \cup { [shape |-> "short", currency |-> None, denomination_lines |-> <<>>,
            buy_lines |-> <<>>, sell_lines |-> <<>>] }

PayloadsLVB ==
    {NoPayload} \cup
    { [root |-> TRUE, rows |-> r] : r \in UNION { [1..n -> RowsLVB] : n \in 0..MaxRows } }

\* The text of a cell: its lines, white space between them.
RECURSIVE cell_text(_)
cell_text(lines) ==
    IF lines = <<>> THEN <<>>
    ELSE IF Len(lines) = 1 THEN lines[1]
    ELSE lines[1] \o <<" ">> \o cell_text(Tail(lines))

truthy(rate) == rate.ok /\ rate.m # 0

\* One pass of the row loop of fetch_lvb_rate.
row_LVB(rates, row, i) ==
    IF row.shape # "row" THEN Continue(rates)
    ELSE IF row.currency \in {"USD", "EUR"}
    THEN IF Len(row.buy_lines) >= 2
         THEN LET buy_rate == parse_rate_LVB(row.buy_lines[2])
                  sell_rate == parse_rate_LVB(strip(cell_text(row.sell_lines)))
              IN  IF truthy(buy_rate) /\ truthy(sell_rate)
                  THEN Continue(Append(rates, Quote(row.currency, buy_rate, sell_rate, i,
                                                    row.denomination_lines[2])))
                  ELSE Continue(rates)
         ELSE Continue(rates)
    ELSE LET buy_rate == IF row.buy_lines # <<>>
                         THEN parse_rate_LVB(row.buy_lines[1]) ELSE NaN
             sell_rate == IF row.sell_lines # <<>>
                          THEN parse_rate_LVB(row.sell_lines[1]) ELSE NaN
         IN  IF truthy(buy_rate) /\ truthy(sell_rate)
             THEN Continue(Append(rates, Quote(row.currency, buy_rate, sell_rate, i, "")))
             ELSE Continue(rates)

Parsers == {"BCEL", "LDB", "APB", "BOL", "BCEL._parse_rate_table", "BCEL0", "LVB"}

row_step(fn, rates, row, i) ==
    CASE fn = "BCEL" -> row_BCEL(rates, row, i)
      [] fn = "LDB" -> row_LDB(rates, row, i)
      [] fn = "APB" -> row_APB(rates, row, i)
      [] fn = "BOL" -> row_BOL(rates, row, i)
      [] fn = "BCEL._parse_rate_table" -> row_BCEL_table(rates, row, i)
      [] fn = "BCEL0" -> row_BCEL0(rates, row, i)
      [] fn = "LVB" -> row_LVB(rates, row, i)

\* The loop over the rows: it ends at the last row, or where a pass raises
\* out of it with the quotes gathered so far.
RECURSIVE row_loop(_, _, _, _)
row_loop(fn, rws, i, rates) ==
    IF i > Len(rws) THEN Continue(rates)
    ELSE LET pass == row_step(fn, rates, rws[i], i)
         IN  IF pass.raised THEN pass ELSE row_loop(fn, rws, i + 1, pass.rates)

NoQuotes == [ok |-> FALSE, rates |-> <<>>]

\* What the caller of the parse has: the quotes in the order they were
\* stored, or nothing.  An exception out of the loop is caught by the
\* handler of the enclosing function: LDBScraper.parse still returns its
\* list, fetch_apb_rate returns (None, None).  The list parsers' callers
\* and fetch_lvb_rate return (None, None) for an empty result.
parse_payload(fn, payload) ==
    LET loop == row_loop(fn, payload.rows, 1, <<>>)
    IN  IF ~payload.root THEN NoQuotes
        ELSE IF fn = "APB"
        THEN IF loop.raised THEN NoQuotes ELSE [ok |-> TRUE, rates |-> loop.rates]
        ELSE IF loop.rates = <<>> THEN NoQuotes
        ELSE [ok |-> TRUE, rates |-> loop.rates]

ParseIdle == [fn |-> None, payload |-> NoPayload, ok |-> FALSE, rates |-> <<>>]

\* One parse of a payload by an adapter.
CallParse ==
    /\ parse.fn = None
    /\ \E fn \in Parsers \ {"LVB"}, payload \in Payloads :
        LET r == parse_payload(fn, payload)
        IN  parse' = [fn |-> fn, payload |-> payload, ok |-> r.ok, rates |-> r.rates]
    /\ UNCHANGED <<cal, call, now, last_request_time, lastIssued, rows,
                   nextId, saves, run, norm, cmp, sleeping>>

\* One parse of an LVB table.
CallParseLVB ==
    /\ parse.fn = None
    /\ \E payload \in PayloadsLVB :
        LET r == parse_payload("LVB", payload)
        IN  parse' = [fn |-> "LVB", payload |-> payload, ok |-> r.ok, rates |-> r.rates]
    /\ UNCHANGED <<cal, call, now, last_request_time, lastIssued, rows,
                   nextId, saves, run, norm, cmp, sleeping>>

ParseReturn ==
    /\ parse.fn # None
    /\ parse' = ParseIdle
    /\ UNCHANGED <<cal, call, now, last_request_time, lastIssued, rows,
                   nextId, saves, run, norm, cmp, sleeping>>

NextParse ==
    \/ CallParse
    \/ CallParseLVB
    \/ ParseReturn

\* The RateSet of a parse: per currency the quote stored last.
RateSet ==
    { parse.rates[k] : k \in { j \in 1..Len(parse.rates) :
        \A l \in (j + 1)..Len(parse.rates) :
            parse.rates[l].currency # parse.rates[j].currency } }

(***************************************************************************)
(* The rate limiters of several scrapers whose fetches run side by side.   *)
(***************************************************************************)
\* the scrapers fetched side by side: two of BaseScraper, each with the
\* HttpClient its __init__ made, and the stand-alone BCEL scraper
Concurrent == {"BOL", "LDB", "BCEL0"}

\* one client for every scraper
http_client_shared(s) == "BOL"

\* self.http_client = HttpClient(base_url): the instance whose last_request_time
\* the requests of scraper s go by
http_client(s) == s

\* _wait_for_next_request up to time.sleep: the stamp of the instance is read;
\* if the interval has passed the stamp is set at once, else the thread sleeps
begin_wait(s) ==
    /\ sleeping[s] = Never
    /\ now <= MaxStart
    /\ IF wait_until(last_request_time[http_client(s)], s) > now
       THEN /\ sleeping' = [sleeping EXCEPT
                               ![s] = wait_until(last_request_time[http_client(s)], s)]
            /\ UNCHANGED <<last_request_time, lastIssued>>
       ELSE /\ last_request_time' = [last_request_time EXCEPT ![http_client(s)] = now]
            /\ lastIssued' = [lastIssued EXCEPT ![s] = now]
            /\ UNCHANGED sleeping
    /\ UNCHANGED <<cal, call, now, rows, nextId, saves, run, norm, parse, cmp>>

\* time.sleep(sleep_time) is over: self.last_request_time = time.time()
end_wait(s) ==
    /\ sleeping[s] # Never
    /\ now >= sleeping[s]
    /\ sleeping' = [sleeping EXCEPT ![s] = Never]
    /\ last_request_time' = [last_request_time EXCEPT ![http_client(s)] = now]
    /\ lastIssued' = [lastIssued EXCEPT ![s] = now]
    /\ UNCHANGED <<cal, call, now, rows, nextId, saves, run, norm, parse, cmp>>

\* a second passes; the clock runs until every sleep begun can end
Tick ==
    /\ now < MaxStart + min_request_interval_legacy
    /\ now' = now + 1
    /\ UNCHANGED <<cal, call, last_request_time, lastIssued, rows, nextId, saves, run,
                   norm, parse, cmp, sleeping>>

NextLimit ==
    \/ \E s \in Concurrent : begin_wait(s)
    \/ \E s \in Concurrent : end_wait(s)
    \/ Tick

Next ==
    \/ \E d \in DateArgs, today \in Todays : fetch_rate_BOL(d, today)
    \/ \E d \in DateArgs, today \in Todays : fetch_rate_BCEL(d, today)
    \/ \E d \in DateArgs, today \in Todays : fetch_rate_LDB(d, today)
    \/ \E d \in DateArgs, today \in Todays : fetch_apb_rate(d, today)
    \/ \E d \in DateArgs, today \in Todays : fetch_lvb_rate(d, today)
    \/ \E c \in CurArgs, d \in DateArgs, today \in Todays : fetch_bcel_rate(c, d, today)
    \/ \E c \in CurArgs, d \in DateArgs, today \in Todays : fetch_lak_rate(c, d, today)
    \/ Return

NextCal ==
    \/ \E s \in Scrapers, d \in Dates : CallIsHoliday(s, d)
    \/ \E s \in Scrapers, d \in Dates : CallPreviousBusinessDay(s, d)
    \/ CallPreviousAgain

(***************************************************************************)
(* The calendar and the orchestration as the specification states them.    *)
(***************************************************************************)
\* isTradingDay: not a weekend day and not a month-day of the holiday list
IsTradingDay(n) == weekday(n) \notin {5, 6} /\ <<YmdTable[n][2], YmdTable[n][3]>> \notin HOLIDAYS

RECURSIVE PreviousTradingDay(_)
PreviousTradingDay(n) ==
    IF IsTradingDay(n - 1) THEN n - 1 ELSE PreviousTradingDay(n - 1)

Returned == call.scraper # None

\* the request-parse attempts of the call, in order
Attempts == SelectSeq(call.log, LAMBDA q : q.parse)

\* the attempt produced an empty RateSet: no table or root, or no quote parsed
EmptyAttempt(q) == q.resp.kind \in {"blank", "nostruct"} \/ (q.resp.kind = "table" /\ q.resp.quotes = {})

\* the date an attempt was made for: the one in its request, today when it has none
AttemptDate(q) == IF q.date # NoDate THEN q.date ELSE call.today

Succeeded == Returned /\ call.res.kind \in {"dict", "scalar"}

\* the call gave (None, None) and its last attempt was not a transport failure
ReportedNoData ==
    /\ Returned
    /\ call.res = NoResult
    /\ Attempts # <<>>
    /\ Attempts[Len(Attempts)].resp.kind # "error"

\* C1: an empty attempt that is not the third is followed by an attempt for the
\* previous trading day of its date; the call does not end on it.
C1_EmptyAttemptRetriesPreviousTradingDay ==
    Returned =>
        \A i \in 1..Len(Attempts) :
            (EmptyAttempt(Attempts[i]) /\ i < 3) =>
                /\ i < Len(Attempts)
                /\ Attempts[i + 1].date = PreviousTradingDay(AttemptDate(Attempts[i]))

\* C2: a call makes at most three attempts, and reports no data only after three
\* attempts that each produced an empty RateSet.
C2_NoDataOnlyAfterThreeEmptyAttempts ==
    Returned =>
        /\ Len(Attempts) <= 3
        /\ ReportedNoData =>
              /\ Len(Attempts) = 3
              /\ \A i \in 1..3 : EmptyAttempt(Attempts[i])

\* C3: when the requested date is not a trading day, the first attempt is for its
\* previous trading day and no request carries the requested date.
C3_NonTradingDateReplacedBeforeFirstRequest ==
    (Returned /\ call.date # NoDate /\ ~IsTradingDay(call.date)) =>
        /\ Attempts # <<>> => Attempts[1].date = PreviousTradingDay(call.date)
        /\ \A i \in 1..Len(call.log) : call.log[i].date # call.date

\* C4: the holiday test of every scraper says non-trading exactly for Saturdays,
\* Sundays and the month-days of the holiday list, whatever the year.
C4_HolidayTestIsWeekendOrListedMonthDay ==
    cal.op = "is_holiday" => ((cal.out = 1) <=> ~IsTradingDay(cal.date))

\* C5: the previous-business-day operation of every scraper returns an earlier
\* date that is a trading day, also when applied to its own result.
C5_PreviousBusinessDayIsEarlierTradingDay ==
    cal.op = "previous" =>
        /\ cal.out # Raised
        /\ cal.out < cal.date
        /\ IsTradingDay(cal.out)

\* C6: the date of a successful fetch is the date encoded in the request whose
\* payload gave the returned rates.
C6_ReturnedDateIsTheRequestsDate ==
    Succeeded => call.res.date = Attempts[Len(Attempts)].date

\* C7: two consecutive requests of one scraper instance are at least its minimum
\* request interval apart, within a fetch and from one fetch to the next.
C7_RequestsAtLeastMinIntervalApart ==
    Returned =>
        /\ \A i \in 1..(Len(call.log) - 1) :
              call.log[i + 1].at - call.log[i].at >= min_request_interval(call.scraper)
        /\ (call.prev # Never /\ call.log # <<>>) =>
              call.log[1].at - call.prev >= min_request_interval(call.scraper)

\* the transport raised on the last request of the call
TransportFailed ==
    /\ Returned
    /\ call.log # <<>>
    /\ call.log[Len(call.log)].resp.kind = "error"

\* C12: a fetch whose transport failed does not return what a fetch returns when
\* the bank has no data, the pair (None, None).
C12_TransportFailureDistinctFromNoData ==
    TransportFailed => call.res # NoResult

(***************************************************************************)
(* Parsing and normalization as the specification states them.             *)
(***************************************************************************)
Canonical(cur) == IF cur = "USD" THEN "50-100" ELSE IF cur = "EUR" THEN "50-500" ELSE ""

\* A row with all its cells, two numeric prices and the tracked denomination.
WellFormedRow(r) ==
    /\ r.shape = "row"
    /\ r.buy = <<"5">>
    /\ r.sell = <<"5">>
    /\ r.band = Canonical(r.currency)

PackageParsers == {"BCEL", "LDB", "APB", "BOL", "BCEL._parse_rate_table"}

Parsed == parse.fn \in PackageParsers /\ parse.payload.root

\* C13: in every adapter's parse, a malformed row or item is skipped and
\* every well-formed row of the payload, before or after it, still appears
\* in the result; the parse fails as a whole only when the table or root
\* structure is missing.
C13_MalformedRowSkippedOthersKept ==
    Parsed =>
        \A i \in 1..Len(parse.payload.rows) :
            WellFormedRow(parse.payload.rows[i]) =>
                /\ parse.ok
                /\ \E k \in 1..Len(parse.rates) : parse.rates[k].row = i

\* A price text that is the no-data sentinel or holds no digit.
NoNumber(t) == strip(t) \in {<<>>, Dash} \/ \A i \in 1..Len(t) : t[i] \notin Digit

RowParsers == Parsers \ {"LVB"}

\* C14: a price text that is the no-data sentinel ('-' or empty), or that
\* holds nothing numeric after cleanup, is a normalization error and never
\* a number: no quote of the returned rates carries a numeric value for it.
C14_UnparseablePriceNeverANumber ==
    parse.fn \in RowParsers =>
        \A k \in 1..Len(parse.rates) :
            LET q == parse.rates[k]
                r == parse.payload.rows[q.row]
            IN  /\ NoNumber(r.buy) => ~q.buy.ok
                /\ NoNumber(r.sell) /\ parse.fn # "BCEL0" => ~q.sell.ok

\* C15: the scale multiplier comes from a table keyed by (source, currency):
\* two rate texts of the same source and the same currency receive the same
\* multiplier, whatever the magnitude of the parsed number.
C15_SameSourceAndCurrencySameMultiplier ==
    (/\ norm.fn \in Scaling
     /\ norm.out.ok
     /\ norm.prev.fn = norm.fn
     /\ norm.prev.cur = norm.cur)
        => norm.adjustment_applied = norm.prev.adjustment_applied

\* The convention of a normalizer: the character it takes for the thousands
\* separator and the one it takes for the decimal separator.
Conventional == Normalizers \ {"LDB.parse"}
Thousands(fn) == IF fn \in {"BOL", "LVB", "BCEL._parse_rate"} THEN "." ELSE ","
Decimal(fn) == IF fn \in {"BOL", "LVB", "BCEL._parse_rate"} THEN "," ELSE "."

\* A valid text of the convention: digits and thousands separators, then at
\* most one decimal separator followed by digits only.
Valid(text, fn) ==
    LET t == strip(text)
    IN  /\ \A i \in 1..Len(t) : t[i] \in Digit \cup {Thousands(fn), Decimal(fn)}
        /\ \E i \in 1..Len(t) : t[i] \in Digit
        /\ count(t, Decimal(fn)) <= 1
        /\ \A i, j \in 1..Len(t) : t[i] = Decimal(fn) /\ t[j] = Thousands(fn) => j < i

Renormalized == norm.again /\ norm.fn \in Conventional /\ Valid(norm.text, norm.fn)

Expected(text, fn) ==
    LET t == strip(text)
        dec == IF count(t, Decimal(fn)) = 1
               THEN CHOOSE i \in 1..Len(t) : t[i] = Decimal(fn)
               ELSE Len(t) + 1
        whole == SelectSeq(SubSeq(t, 1, dec - 1), LAMBDA c : c \in Digit)
        frac == SubSeq(t, dec + 1, Len(t))
    IN  Float(NatVal(whole \o frac), Len(frac))

CommaThousands == <<"1", ",", "2", "3", "4", ".", "5", "6">>
DotThousands == <<"1", ".", "2", "3", "4", ",", "5", "6">>
Unscaled == norm.cur \notin {"CNY", "KRW"}

SellOnlyRow(r) ==
    /\ r.shape = "row"
    /\ r.buy = Dash
    /\ r.sell = <<"5">>
    /\ r.band = Canonical(r.currency)

NoJunk == \A i \in 1..Len(parse.payload.rows) : parse.payload.rows[i].shape # "junk"

\* C18: a row with a sell price and no buy price (the '-' sentinel) is not
\* discarded: it gives a quote of its currency with no buy value and with
\* the sell value.
C18_SellOnlyRowGivesQuoteWithoutBuy ==
    (Parsed /\ NoJunk) =>
        \A i \in 1..Len(parse.payload.rows) :
            SellOnlyRow(parse.payload.rows[i]) =>
                \E k \in 1..Len(parse.rates) :
                    /\ parse.rates[k].row = i
                    /\ parse.rates[k].currency = parse.payload.rows[i].currency
                    /\ ~parse.rates[k].buy.ok
                    /\ parse.rates[k].sell.ok

\* A price that is not published: the '-' sentinel or an empty text.
Missing(t) == strip(t) \in {<<>>, Dash}

\* Every quote of the returned rates carries a buy or a sell value.
QuoteHasBuyOrSell == \A q \in RateSet : q.buy.ok \/ q.sell.ok

\* C19: every quote of the rates an adapter returns has at least one of buy
\* and sell present, and a row whose two prices are both missing never
\* produces a quote.
C19_QuoteHasAPriceOfItsRow ==
    /\ QuoteHasBuyOrSell
    /\ parse.fn \in RowParsers \ {"BCEL0"} =>
            \A k \in 1..Len(parse.rates) :
                LET r == parse.payload.rows[parse.rates[k].row]
                IN  ~(Missing(r.buy) /\ Missing(r.sell))

\* The adapters whose source lists a currency in several denominations.
DenominationParsers == {"BCEL", "BCEL._parse_rate_table", "BCEL0", "LVB"}

\* C20: for a currency listed in several cash-note denomination rows (USD
\* and EUR), only the row of the canonical denomination sets the currency's
\* quote; a row of another denomination never sets or overwrites it,
\* whatever the order of the rows.
C20_OnlyCanonicalDenominationContributes ==
    parse.fn \in DenominationParsers =>
        \A k \in 1..Len(parse.rates) :
            parse.rates[k].currency \in {"USD", "EUR"} =>
                parse.rates[k].band = Canonical(parse.rates[k].currency)

\* the currencies of the lines of a table
TableCurrencies(table) == { r.currency : r \in table }

\* C21: the lines of a comparison are those of the currencies either bank's rates
\* hold: a currency only one of the two banks quotes has its lines too.
C21_ComparisonRowsCoverEitherBanksCurrencies ==
    /\ (cmp.fn # None /\ ~cmp.raised) =>
          TableCurrencies(cmp.table) = { x.currency : x \in cmp.rates }
    /\ (run.prog = "get_bcel_rate.py" /\ run.shown # {}) =>
          TableCurrencies(run.table) = run.bcel.quotes \cup run.bol.quotes

\* the lines of the tables made so far
Lines == cmp.table \cup run.table

\* C22: a line whose baseline value, BOL's, is zero or missing reports the
\* percentage as undefined (N/A), never as a number.
C22_PercentUndefinedOnZeroOrMissingBaseline ==
    \A r \in Lines : (r.bol.na \/ r.bol.v = 0) => r.difference_percent.na

C24_UpsertsOfOtherKeysLeaveRow ==
    \A i \in 1..Len(saves) :
        /\ Cardinality(RowsFor(saves[i].currency, saves[i].date, saves[i].bank)) = 1
        /\ (\A j \in (i + 1)..Len(saves) : Key(saves[j]) # Key(saves[i])) =>
              \E x \in rows : x.id = i /\ x.rate = saves[i].rate

\* the same with the key of the store, (currency, bank, date)
UpsertsOfOtherStoredKeysLeaveRow ==
    \A i \in 1..Len(saves) :
        (\A j \in (i + 1)..Len(saves) :
            <<saves[j].currency, saves[j].date, saves[j].bank>>
              # <<saves[i].currency, saves[i].date, saves[i].bank>>) =>
          \E x \in rows : x.id = i /\ x.rate = saves[i].rate


\* C25: with the fetches of several scrapers running side by side, the stamp of
\* a scraper's limiter is the time of that scraper's own latest request, and a
\* scraper that sleeps wakes an interval after its own latest request: the
\* requests of another scraper neither set its stamp nor delay it.
C25_LimiterStateIsPerAdapter ==
    \A s \in Concurrent :
        /\ last_request_time[s] = lastIssued[s]
        /\ sleeping[s] # Never => sleeping[s] = lastIssued[s] + min_request_interval(s)

\* the stand-alone BCEL scraper sleeps between two requests of its own while
\* LDB, fetched beside it, has made a later request
C25_Witness ==
    /\ sleeping["BCEL0"] # Never
    /\ lastIssued["BCEL0"] # Never
    /\ lastIssued["LDB"] > lastIssued["BCEL0"]
    /\ last_request_time["BCEL0"] < last_request_time["LDB"]


\* the date a run was asked for: --date, or today without it
Requested == IF run.query # NoDate THEN run.query ELSE run.today

\* the rates a bank's fetch gave in the run
RateSetOf(bk) == IF bk = "BCEL" THEN run.bcel ELSE run.bol

\* C26: for every bank whose rates a run shows, the output holds a note on that
\* bank's date exactly when the date of the rates is not the date asked for.
C26_DateDiscrepancyNoticed ==
    run.prog # None =>
        \A bk \in run.shown : (RateSetOf(bk).date # Requested) <=> (bk \in run.notice)

\* the same for the runs of get_bcel_rate.py that were given --date and printed
\* their table
DateDiscrepancyNoticedWithQueryDate ==
    (run.prog = "get_bcel_rate.py" /\ run.query # NoDate /\ run.shown # {}) =>
        \A bk \in Fetched : (RateSetOf(bk).date # Requested) <=> (bk \in run.notice)


\* C27: a run in which no bank's fetch gave rates prints a diagnostic and ends
\* with a status other than zero; a run ends with status zero only if some
\* bank's fetch gave rates.
C27_TotalFetchFailureExitsNonZero ==
    (run.prog # None /\ Fetched = {}) => (run.diagnostic /\ run.exit # 0)

\* a run in which no bank's fetch gave rates prints a diagnostic
TotalFetchFailureDiagnosed ==
    (run.prog # None /\ Fetched = {}) => run.diagnostic


\* C28: with the holiday list of config.py the walk back to the previous
\* business day ends, for every start date, after at most 6 steps of one day
\* (the three days of the April holiday after a weekend are 5 days in a row).
C28_WalkBackEndsWithinSixSteps ==
    (cal.op = "previous" /\ cal.scraper # "Base") =>
        /\ cal.out # Raised
        /\ cal.date - cal.out >= 1
        /\ cal.date - cal.out <= 6

\* LDB walks from Thursday 2025-04-17 back to Friday 2025-04-11: 6 steps
C28_Witness ==
    /\ cal.op = "previous" /\ cal.scraper = "LDB"
    /\ cal.date = Ord(2025, 4, 17)
    /\ cal.out = Ord(2025, 4, 11)
    /\ cal.date - cal.out = 6

\* over every day of the years 2024 to 2027: one of the 6 days before it is
\* neither a Saturday or Sunday nor a month-day of the holiday list
SixDaysBeforeHoldATradingDay ==
    \A n \in Ord(2024, 1, 1)..Ord(2027, 12, 31) :
        \E k \in 1..6 :
            weekday(n - k) < 5 /\ <<MonthOf(n - k), DayOf(n - k)>> \notin HOLIDAYS


\* the rows of a bank in a store
RowsOf(rws, bk) == { x \in rws : x.bank = bk }

\* C29: a run in which a bank's fetch gave no rates leaves the rows of that bank
\* as they were: none inserted, none replaced, none deleted.
C29_FailedBanksRowsUntouched ==
    [][\A bk \in Banks :
          (run'.prog # None /\ run' # run /\ RateSetOf(bk)'.kind = "none") =>
              RowsOf(rows', bk) = RowsOf(rows, bk)]_vars

\* BOL's fetch gave nothing, BOL's rows of the earlier run are in the store, and
\* the run wrote a row of BCEL
C29_Witness ==
    /\ run.prog = "get_bcel_rate.py"
    /\ run.bol.kind = "none"
    /\ Cardinality(RowsOf(rows, "BOL")) = 2
    /\ \E x \in RowsOf(rows, "BCEL") : x.id >= 5


\* C30: every fetch returns rates together with their date, or neither: never
\* rates without a date, never a date without rates.
C30_FetchReturnsRatesAndDateOrNeither ==
    Returned => ((call.res.kind = "none") <=> (call.res.date = NoDate))


Init ==
    /\ cal = CalIdle
    /\ call = CallIdle
    /\ now = Boot
    /\ last_request_time = [s \in Scrapers |-> 0]
    /\ lastIssued = [s \in Scrapers |-> Never]
    /\ rows = {}
    /\ nextId = 1
    /\ saves = <<>>
    /\ run = RunIdle
    /\ norm = NormIdle
    /\ parse = ParseIdle
    /\ cmp = CmpIdle
    /\ sleeping = [s \in Scrapers |-> Never]

\* a run that finds the rows of an earlier run in the store
InitStored ==
    /\ cal = CalIdle
    /\ call = CallIdle
    /\ now = Boot
    /\ last_request_time = [s \in Scrapers |-> 0]
    /\ lastIssued = [s \in Scrapers |-> Never]
    /\ rows \in StoredBefore
    /\ nextId = 5
    /\ saves = <<>>
    /\ run = RunIdle
    /\ norm = NormIdle
    /\ parse = ParseIdle
    /\ cmp = CmpIdle
    /\ sleeping = [s \in Scrapers |-> Never]

Spec == Init /\ [][Next]_vars

SpecCal == Init /\ [][NextCal]_vars
SpecDB == Init /\ [][NextDB]_vars
SpecRun == Init /\ [][NextRun]_vars
SpecNorm == Init /\ [][NextNorm]_vars
SpecParse == Init /\ [][NextParse]_vars
SpecCmp == Init /\ [][NextCmp]_vars
SpecLimit == Init /\ [][NextLimit]_vars
SpecStored == InitStored /\ [][NextRun]_vars

=============================================================================
